---------------------------- MODULE Spec2Model ----------------------------
(***************************************************************************)
(* A model of the tekxchange backend: the product service                  *)
(* (src/src/services/product_service.rs), its DTOs                          *)
(* (src/src/models/product.rs) and the startup routine (src/src/main.rs).  *)
(*                                                                         *)
(* Four specifications share the module:                                   *)
(*   Spec         the product service, one action per handler call;        *)
(*   ConcSpec     the same handlers as concurrent requests, one action per *)
(*                database round trip;                                     *)
(*   StartupSpec  rocket(), one action per awaited/unwrapped step, run any *)
(*                number of times against one persistent user table;       *)
(*   RespSpec     the Responder of ProductServiceError as a pure function. *)
(*                                                                         *)
(* Modelling assumption of Spec and ConcSpec: a query sent over an         *)
(* established connection is answered by the store.  The OrmError results  *)
(* that are modelled are the ones the store's state determines (an UPDATE  *)
(* that matches no row).  A failure to connect is modelled in the request  *)
(* guard (from_request) and in rocket().                                   *)
(***************************************************************************)
EXTENDS Integers, Sequences, FiniteSets, TLC

VARIABLES
    users,       \* the user table: id -> [username, role]
    products,    \* the product table: id -> row
    nextId,      \* the product table's next auto-increment id
    last,        \* Spec: the last handler call and what it returned
    before,      \* Spec: the product table as it was before that call
    creator,     \* Spec: id of a row -> who created it, the price last given for
                 \* it, and the details it was created with while no call changed it
    reqs,        \* ConcSpec: request slot -> the request in flight
    deleted,     \* ConcSpec: ids a delete_product_by_id call has removed
    pc,          \* StartupSpec: the position of the current run of rocket()
    env,         \* StartupSpec: the environment variables set for the run
    found_admin, \* StartupSpec: rocket()'s local found_admin
    user_id,     \* StartupSpec: rocket()'s local user_id
    log,         \* StartupSpec: the steps the current run has taken
    bootUsers,   \* StartupSpec: the user table as the current run found it
    runs,        \* StartupSpec: the number of runs started
    respErr,     \* RespSpec: the error handed to respond_to
    respReq,     \* RespSpec: the request handed to respond_to
    response     \* RespSpec: what respond_to built

vars == <<users, products, nextId, last, before, creator, reqs, deleted,
          pc, env, found_admin, user_id, log, bootUsers, runs,
          respErr, respReq, response>>

productVars == <<products, nextId, last, before, creator>>
concVars    == <<reqs, deleted>>
startupVars == <<pc, env, found_admin, user_id, log, bootUsers, runs>>
respVars    == <<respErr, respReq, response>>

----------------------------------------------------------------------------
(* Bounds of the model.                                                    *)

\* the product table holds ids 1..MaxProducts
MaxProducts == 2
\* the users 1..NumUsers are registered when the product service runs
NumUsers == 2
\* the concurrent requests of ConcSpec
NumReqs == 2
\* the runs of rocket() StartupSpec follows
MaxRuns == 3
\* the largest product id an error of RespSpec mentions
MaxErrId == 3

----------------------------------------------------------------------------
(* Option<T>: None is the empty sequence, Some(x) the sequence <<x>>.      *)

None == <<>>
Some(x) == <<x>>

----------------------------------------------------------------------------
(* Decimal and f64.                                                        *)
(*                                                                         *)
(* A Decimal is sign, 96-bit mantissa and scale: mantissa / 10^scale.      *)
(* Mantissas are kept as bit sequences, most significant bit first and     *)
(* without leading zeros (<<>> is 0), so that the 53 bits of an f64's      *)
(* significand are modelled at their width.  An f64 is sign, significand   *)
(* and exponent, sig * 2^exp, with sig at most F64_MANTISSA_DIGITS bits    *)
(* and odd (or zero), so that equal values are equal records.              *)

F64_MANTISSA_DIGITS == 53

Zeros(n) == [i \in 1..n |-> 0]

\* bits without its leading zeros
Strip(bits) ==
    IF \A i \in 1..Len(bits) : bits[i] = 0 THEN <<>>
    ELSE LET k == CHOOSE i \in 1..Len(bits) :
                      bits[i] = 1 /\ \A j \in 1..(i - 1) : bits[j] = 0
         IN  SubSeq(bits, k, Len(bits))

\* bits without its trailing zeros, and the number of zeros removed
StripTrailing(bits) ==
    IF \A i \in 1..Len(bits) : bits[i] = 0
    THEN [bits |-> <<>>, n |-> Len(bits)]
    ELSE LET k == CHOOSE i \in 1..Len(bits) :
                      bits[i] = 1 /\ \A j \in (i + 1)..Len(bits) : bits[j] = 0
         IN  [bits |-> SubSeq(bits, 1, k), n |-> Len(bits) - k]

RECURSIVE NatToBits(_)
NatToBits(n) == IF n = 0 THEN <<>> ELSE NatToBits(n \div 2) \o <<n % 2>>

RECURSIVE Pow10(_)
Pow10(s) == IF s = 0 THEN 1 ELSE 10 * Pow10(s - 1)

\* bits + 1
IncBits(bits) ==
    IF \A i \in 1..Len(bits) : bits[i] = 1
    THEN <<1>> \o Zeros(Len(bits))
    ELSE LET k == CHOOSE i \in 1..Len(bits) :
                      bits[i] = 0 /\ \A j \in (i + 1)..Len(bits) : bits[j] = 1
         IN  SubSeq(bits, 1, k - 1) \o <<1>> \o Zeros(Len(bits) - k)

RECURSIVE DivRange(_, _, _, _, _)
\* long division, the bits lo..hi of `bits` brought down onto the remainder
\* rem: the quotient bits produced and the remainder left.  The range is
\* halved rather than walked so that the evaluation stays shallow.
DivRange(bits, lo, hi, d, rem) ==
    IF lo > hi THEN [q |-> <<>>, r |-> rem]
    ELSE IF lo = hi
         THEN LET v == 2 * rem + bits[lo]
              IN  IF v >= d THEN [q |-> <<1>>, r |-> v - d]
                            ELSE [q |-> <<0>>, r |-> v]
         ELSE LET mid   == (lo + hi) \div 2
                  left  == DivRange(bits, lo, mid, d, rem)
                  right == DivRange(bits, mid + 1, hi, d, left.r)
              IN  [q |-> left.q \o right.q, r |-> right.r]

\* bits / d: quotient q (as many bits as `bits` has) and remainder r
DivBits(bits, d) == DivRange(bits, 1, Len(bits), d, 0)

Decimal(neg, mant, scale) == [neg |-> neg, mant |-> Strip(mant), scale |-> scale]

F64(neg, sig, exp) ==
    LET t == StripTrailing(Strip(sig))
    IN  IF t.bits = <<>> THEN [neg |-> FALSE, sig |-> <<>>, exp |-> 0]
        ELSE [neg |-> neg, sig |-> t.bits, exp |-> exp + t.n]

F64Zero == F64(FALSE, <<>>, 0)

\* the bits past the binary point the division is carried to: enough for
\* F64_MANTISSA_DIGITS + 1 significant bits of any quotient below 1, which is
\* at least 1/10^scale
FracBits(scale) == F64_MANTISSA_DIGITS + 1 + Len(NatToBits(Pow10(scale)))

\* f64::try_from(Decimal), which is Decimal::to_f64: the f64 nearest to
\* mant / 10^scale, ties to even.  For scale 0 this is the cast of the
\* integer to f64; for a mantissa below 2^53 it is the quotient
\* round(value * 10^scale) / 10^scale the library computes.  The conversion
\* never fails (it is Some for every Decimal).
F64TryFromDecimal(d) ==
    LET k == FracBits(d.scale)
        f == DivBits(d.mant \o Zeros(k), Pow10(d.scale))
        q == Strip(f.q)
        n == Len(q)
    IN  IF n <= F64_MANTISSA_DIGITS
        THEN \* only 0 is that short, so far past the point
             Some(F64(d.neg, q, 0 - k))
        ELSE LET keep    == SubSeq(q, 1, F64_MANTISSA_DIGITS)
                 guard   == q[F64_MANTISSA_DIGITS + 1]
                 sticky  == f.r # 0 \/
                            \E j \in (F64_MANTISSA_DIGITS + 2)..n : q[j] = 1
                 roundUp == guard = 1 /\
                            (sticky \/ keep[F64_MANTISSA_DIGITS] = 1)
                 sig     == IF roundUp THEN IncBits(keep) ELSE keep
             IN  Some(F64(d.neg, sig, (n - F64_MANTISSA_DIGITS) - k))

\* the f64 f and the Decimal d are the same number: mant / 10^scale divides
\* without remainder and the quotient is sig * 2^exp
SameNumber(f, d) ==
    LET up   == IF f.exp < 0 THEN 0 - f.exp ELSE 0
        down == IF f.exp > 0 THEN f.exp ELSE 0
        dv   == DivBits(d.mant \o Zeros(up), Pow10(d.scale))
    IN  /\ dv.r = 0
        /\ Strip(dv.q) = f.sig \o Zeros(down)
        /\ f.sig # <<>> => f.neg = d.neg

----------------------------------------------------------------------------
(* ProductServiceError and Result.                                         *)

DbError(detail)  == [kind |-> "DbError",    id |-> 0,  detail |-> detail]
OrmError(detail) == [kind |-> "OrmError",   id |-> 0,  detail |-> detail]
NotFound(id)     == [kind |-> "NotFound",   id |-> id, detail |-> ""]
NotAllowed       == [kind |-> "NotAllowed", id |-> 0,  detail |-> ""]
Unknown          == [kind |-> "Unknown",    id |-> 0,  detail |-> ""]
NoError          == [kind |-> "",           id |-> 0,  detail |-> ""]

\* Result<T, ProductServiceError>: Ok carries its value as <<value>>
Ok(v)  == [tag |-> "Ok",  val |-> <<v>>, err |-> NoError]
Err(e) == [tag |-> "Err", val |-> <<>>,  err |-> e]
Unit   == "()"

----------------------------------------------------------------------------
(* The DTOs of src/src/models/product.rs and the inputs of the model.      *)

ProductDetails(description, title, price, country, state, city, zip, latitude, longitude) ==
    [description |-> description, title |-> title, price |-> price,
     country |-> country, state |-> state, city |-> city, zip |-> zip,
     latitude |-> latitude, longitude |-> longitude]

ProductReturn(title, description, price, created_by) ==
    [title |-> title, description |-> description, price |-> price,
     created_by |-> created_by]

\* 12.50: a price an f64 holds exactly
PriceExact == Decimal(FALSE, NatToBits(1250), 2)
\* 9007199254740993 = 2^53 + 1: an integer price of 54 bits
PriceWide == Decimal(FALSE, <<1>> \o Zeros(F64_MANTISSA_DIGITS - 1) \o <<1>>, 0)

\* the request bodies the handlers are called with
DetailsInputs ==
    { ProductDetails("a lamp", "Lamp", PriceExact, "US", "CA", "Fresno",
                     "93650", None, None),
      ProductDetails("a ship", "Ship", PriceWide, "NO", "VL", "Bergen",
                     "5003", Some(Decimal(FALSE, NatToBits(6039), 2)),
                     Some(Decimal(FALSE, NatToBits(532), 2))) }

\* the conversion of the prices of DetailsInputs, computed once
PriceInputs == { d.price : d \in DetailsInputs }
F64Table == [d \in PriceInputs |-> F64TryFromDecimal(d)]

\* f64::try_from(price)
F64TryFrom(price) ==
    IF price \in PriceInputs THEN F64Table[price] ELSE F64TryFromDecimal(price)

UserIds    == 1..NumUsers
ProductIds == 1..MaxProducts

\* the callers: an AuthUser for every registered user
AuthUser(id) == [user |-> [id |-> id]]
AuthUsers == { AuthUser(u) : u \in UserIds }

Username(u) == <<"user", u>>

\* the user table the product service runs against
RegisteredUsers == [u \in UserIds |-> [id |-> u, username |-> Username(u),
                                       role |-> "User"]]

----------------------------------------------------------------------------
(* The store, as the service's queries use it.  A table is a function from *)
(* the ids of its rows.  An ActiveModel is a row's values and the set of   *)
(* its columns that are Set; an UPDATE writes the Set columns.             *)

ProductColumns ==
    {"id", "product_title", "description", "price", "created_by",
     "location_city", "location_state", "location_country", "location_zip",
     "location_latitude", "location_longitude"}

\* ProductEntity::find().filter(Id.eq(id)).one(), find_by_id(id).one()
FindOne(prods, id) ==
    IF id \in DOMAIN prods THEN Some(prods[id]) ELSE None

\* find().find_also_related(user::Entity).filter(Id.eq(id)).one(): the row
\* left-joined with the user its created_by names
FindAlsoRelated(prods, usrs, id) ==
    IF id \in DOMAIN prods
    THEN Some([prod |-> prods[id],
               user |-> IF prods[id].created_by \in DOMAIN usrs
                        THEN Some(usrs[prods[id].created_by]) ELSE None])
    ELSE None

\* Model -> ActiveModel (.into()): every column Unchanged
IntoActiveModel(model) == [row |-> model, set |-> {}]

----------------------------------------------------------------------------
(* ProductService::create_new_product.                                     *)

\* the ActiveModel to insert: ten columns Set, id left NotSet
ToCreate(create, creating_user) ==
    [row |-> [id                 |-> 0,
              price              |-> create.price,
              description        |-> create.description,
              product_title      |-> create.title,
              created_by         |-> creating_user.user.id,
              location_city      |-> create.city,
              location_state     |-> create.state,
              location_country   |-> create.country,
              location_latitude  |-> create.latitude,
              location_longitude |-> create.longitude,
              location_zip       |-> create.zip],
     set |-> ProductColumns \ {"id"}]

\* to_create.insert(): the store assigns the next id and returns the row
Insert(prods, next, am) ==
    LET created == [am.row EXCEPT !.id = next]
    IN  [created  |-> created,
         products |-> [i \in DOMAIN prods \cup {next} |->
                         IF i = next THEN created ELSE prods[i]]]

CreateNewProduct(prods, next, create, creating_user) ==
    LET ins == Insert(prods, next, ToCreate(create, creating_user))
    IN  [res |-> Ok(ins.created.id), products |-> ins.products]

----------------------------------------------------------------------------
(* ProductService::get_product_by_id.                                      *)

\* get_product_by_id with its else branch returning Unknown: the fault C5
\* must detect
GetProductByIdMissingIsUnknown(prods, usrs, id) ==
    LET found == FindAlsoRelated(prods, usrs, id)
    IN  IF found # None /\ found[1].user # None
        THEN Ok(ProductReturn(found[1].prod.product_title,
                              found[1].prod.description,
                              F64TryFrom(found[1].prod.price)[1],
                              [id |-> found[1].user[1].id,
                               username |-> found[1].user[1].username]))
        ELSE Err(Unknown)

GetProductById(prods, usrs, id) ==
    LET found == FindAlsoRelated(prods, usrs, id)
    IN  IF found # None
        THEN LET prod == found[1].prod
                 user == found[1].user
             IN  IF user = None THEN Err(Unknown)
                 ELSE LET price == F64TryFrom(prod.price)
                      IN  IF price = None THEN Err(Unknown)
                          ELSE Ok(ProductReturn(
                                    prod.product_title,
                                    prod.description,
                                    price[1],
                                    [id |-> user[1].id,
                                     username |-> user[1].username]))
        ELSE Err(NotFound(id))

----------------------------------------------------------------------------
(* ProductService::update_product_by_id.                                   *)

\* the ownership comparison dropped, so that every caller passes: the fault
\* C1 must detect
UpdateAnyoneMayWrite(created_by_id, user) == FALSE

\* line 142: db_product.created_by.id != user.user.id
UpdateNotOwner(created_by_id, user) == created_by_id # user.user.id

\* lines 141-144: Err(e) to return e, Ok to go on
UpdateCheck(prods, usrs, id, user) ==
    LET db_product == GetProductById(prods, usrs, id)
    IN  IF db_product.tag = "Err" THEN db_product
        ELSE IF UpdateNotOwner(db_product.val[1].created_by.id, user)
             THEN Err(NotAllowed)
             ELSE Ok(Unit)

\* lines 146-152: the row read again, as an ActiveModel
UpdateFind(prods, id) ==
    LET one == FindOne(prods, id)
    IN  IF one = None THEN Err(NotFound(id))
        ELSE Ok(IntoActiveModel(one[1]))

\* new_prod built over Default instead of active_product, created_by Set to
\* its default with the rest: the fault C6 must detect
NewProdFromDefault(active_product, product) ==
    [row |-> [active_product.row EXCEPT
                !.description        = product.description,
                !.location_city      = product.city,
                !.location_country   = product.country,
                !.location_state     = product.state,
                !.location_zip       = product.zip,
                !.location_latitude  = product.latitude,
                !.location_longitude = product.longitude,
                !.price              = product.price,
                !.product_title      = product.title,
                !.created_by         = 0],
     set |-> ProductColumns \ {"id"}]

\* lines 154-165: nine columns Set, the rest as active_product has them
NewProd(active_product, product) ==
    [row |-> [active_product.row EXCEPT
                !.description        = product.description,
                !.location_city      = product.city,
                !.location_country   = product.country,
                !.location_state     = product.state,
                !.location_zip       = product.zip,
                !.location_latitude  = product.latitude,
                !.location_longitude = product.longitude,
                !.price              = product.price,
                !.product_title      = product.title],
     set |-> active_product.set \cup
             {"description", "location_city", "location_country",
              "location_state", "location_zip", "location_latitude",
              "location_longitude", "price", "product_title"}]

NoRowsAffected == "None of the database rows are affected"

\* the row with the Set columns of am written over it
WriteSet(row, am) ==
    [c \in DOMAIN row |-> IF c \in am.set THEN am.row[c] ELSE row[c]]

\* an update that inserts the row when it matches none: the fault C10 must
\* detect
UpdateUpserts(prods, am) ==
    [res      |-> Ok(Unit),
     products |-> [i \in DOMAIN prods \cup {am.row.id} |->
                     IF i = am.row.id
                     THEN IF i \in DOMAIN prods THEN WriteSet(prods[i], am)
                          ELSE am.row
                     ELSE prods[i]]]

\* lines 167-170: new_prod.update(): UPDATE .. WHERE id = new_prod.id; a
\* statement that matches no row is a DbErr (RecordNotFound in sea-orm 0.10,
\* RecordNotUpdated since 0.11) with the message NoRowsAffected
Update(prods, am) ==
    IF am.row.id \in DOMAIN prods
    THEN [res      |-> Ok(Unit),
          products |-> [prods EXCEPT ![am.row.id] = WriteSet(@, am)]]
    ELSE [res |-> Err(OrmError(NoRowsAffected)), products |-> prods]

\* the handler from its first line to its return
UpdateProductById(prods, usrs, id, product, user) ==
    LET check == UpdateCheck(prods, usrs, id, user)
    IN  IF check.tag = "Err" THEN [res |-> check, products |-> prods]
        ELSE LET active_product == UpdateFind(prods, id)
             IN  IF active_product.tag = "Err"
                 THEN [res |-> active_product, products |-> prods]
                 ELSE Update(prods, NewProd(active_product.val[1], product))

----------------------------------------------------------------------------
(* ProductService::delete_product_by_id.                                   *)

\* lines 180-185: the row as an ActiveModel, or NotFound
DeleteFind(prods, id) ==
    LET one == FindOne(prods, id)
    IN  IF one = None THEN Err(NotFound(id))
        ELSE Ok(IntoActiveModel(one[1]))

\* line 187: product.created_by.clone().unwrap() != user.user.id
DeleteNotOwner(product, user) == product.row.created_by # user.user.id

\* lines 191-194: product.delete(): DELETE .. WHERE id = product.id; a
\* statement that matches no row is Ok
Delete(prods, am) ==
    [res      |-> Ok(Unit),
     products |-> [i \in DOMAIN prods \ {am.row.id} |-> prods[i]]]

\* the handler from its first line to its return
DeleteProductById(prods, id, user) ==
    LET product == DeleteFind(prods, id)
    IN  IF product.tag = "Err" THEN [res |-> product, products |-> prods]
        ELSE IF DeleteNotOwner(product.val[1], user)
             THEN [res |-> Err(NotAllowed), products |-> prods]
             ELSE Delete(prods, product.val[1])

----------------------------------------------------------------------------
(* The values the variables of a specification hold while another runs.    *)

ConcIdle    == reqs = <<>> /\ deleted = {}
StartupIdle == /\ pc = "down" /\ env = {} /\ found_admin = FALSE
               /\ user_id = 0 /\ log = <<>> /\ bootUsers = <<>> /\ runs = 0
RespIdle    == /\ respErr = NoError
               /\ respReq = [method |-> "", accept |-> ""]
               /\ response = <<>>
ProductIdle == /\ products = <<>> /\ nextId = 1 /\ last = <<>>
               /\ before = <<>> /\ creator = <<>>

----------------------------------------------------------------------------
(* Spec: the product service, one handler call per step.                   *)

Call(op, id, user, details, result) ==
    [op |-> op, id |-> id, user |-> user, details |-> details,
     result |-> result]

NoCall == Call("", 0, AuthUser(0), None, Ok(Unit))

Init ==
    /\ users = RegisteredUsers
    /\ products = <<>>
    /\ nextId = 1
    /\ last = NoCall
    /\ before = <<>>
    /\ creator = <<>>
    /\ ConcIdle /\ StartupIdle /\ RespIdle

\* what a step of the product service leaves alone
productFrame == UNCHANGED <<users, concVars, startupVars, respVars>>

\* from_request: establish_connection() fails and the handler is not called
FromRequestFailure ==
    /\ last' = Call("from_request", 0, AuthUser(0), None,
                    Err(DbError("connection")))
    /\ before' = products
    /\ UNCHANGED <<products, nextId, creator>>
    /\ productFrame

CallCreateNewProduct ==
    \E create \in DetailsInputs, creating_user \in AuthUsers :
        /\ nextId <= MaxProducts
        /\ LET r == CreateNewProduct(products, nextId, create, creating_user)
           IN  /\ products' = r.products
               /\ last' = Call("create", 0, creating_user, Some(create), r.res)
               /\ creator' = [i \in DOMAIN creator \cup {nextId} |->
                                IF i = nextId
                                THEN [by      |-> creating_user.user.id,
                                      price   |-> create.price,
                                      details |-> Some(create)]
                                ELSE creator[i]]
        /\ nextId' = nextId + 1
        /\ before' = products
        /\ productFrame

CallGetProductById ==
    \E id \in ProductIds :
        /\ last' = Call("get", id, AuthUser(0), None,
                        GetProductById(products, users, id))
        /\ before' = products
        /\ UNCHANGED <<products, nextId, creator>>
        /\ productFrame

CallUpdateProductById ==
    \E id \in ProductIds, product \in DetailsInputs, user \in AuthUsers :
        LET r == UpdateProductById(products, users, id, product, user)
        IN  /\ products' = r.products
            /\ last' = Call("update", id, user, Some(product), r.res)
            /\ creator' = IF r.res.tag = "Ok"
                          THEN [creator EXCEPT
                                  ![id] = [@ EXCEPT !.price = product.price,
                                                    !.details = None]]
                          ELSE creator
            /\ before' = products
            /\ UNCHANGED nextId
            /\ productFrame

CallDeleteProductById ==
    \E id \in ProductIds, user \in AuthUsers :
        LET r == DeleteProductById(products, id, user)
        IN  /\ products' = r.products
            /\ last' = Call("delete", id, user, None, r.res)
            /\ creator' = IF r.res.tag = "Ok"
                          THEN [i \in DOMAIN creator \ {id} |-> creator[i]]
                          ELSE creator
            /\ before' = products
            /\ UNCHANGED nextId
            /\ productFrame

Next ==
    \/ FromRequestFailure
    \/ CallCreateNewProduct
    \/ CallGetProductById
    \/ CallUpdateProductById
    \/ CallDeleteProductById

Spec == Init /\ [][Next]_vars


----------------------------------------------------------------------------
(* Properties of the product service, checked under Spec.                  *)

\* the last call was op on a row that existed when it was made
OnExistingRow(op) == last.op = op /\ last.id \in DOMAIN before

C4_CreateThenGetMatches ==
    /\ (last.op = "get" /\ last.id \in DOMAIN creator
          /\ creator[last.id].details # None)
       => /\ last.result.tag = "Ok"
          /\ LET got     == last.result.val[1]
                 details == creator[last.id].details[1]
             IN  /\ got.title = details.title
                 /\ got.description = details.description
                 /\ SameNumber(got.price, details.price)
                 /\ got.created_by.id = creator[last.id].by
    /\ (last.op = "create" /\ last.result.tag = "Ok")
       => /\ last.result.val[1] \notin DOMAIN before
          /\ last.result.val[1] \in DOMAIN products

C6_OwnershipImmutable ==
    /\ \A id \in DOMAIN products :
          /\ products[id].created_by = creator[id].by
          /\ products[id].id = id
    /\ (last.op = "update" /\ last.result.tag = "Ok")
       => /\ DOMAIN products = DOMAIN before
          /\ \A id \in DOMAIN products \ {last.id} : products[id] = before[id]
          /\ LET old == before[last.id]
                 new == products[last.id]
                 d   == last.details[1]
             IN  /\ new.id = old.id
                 /\ new.created_by = old.created_by
                 /\ new.description = d.description
                 /\ new.product_title = d.title
                 /\ new.price = d.price
                 /\ new.location_city = d.city
                 /\ new.location_state = d.state
                 /\ new.location_country = d.country
                 /\ new.location_zip = d.zip
                 /\ new.location_latitude = d.latitude
                 /\ new.location_longitude = d.longitude

\* C6 happens: the owner's update has changed a product
C6_Witness ==
    /\ OnExistingRow("update")
    /\ last.result.tag = "Ok"
    /\ products[last.id] # before[last.id]
    /\ products[last.id].created_by = last.user.user.id

\* C8: the price get_product_by_id returns is the number that was last
\* given as the product's price
C8_PriceRoundTrips ==
    (last.op = "get" /\ last.result.tag = "Ok")
    => SameNumber(last.result.val[1].price, creator[last.id].price)


----------------------------------------------------------------------------
(* ConcSpec: the handlers as concurrent requests.  Each request has its    *)
(* own connection (from_request) and every awaited query is one step, so   *)
(* the steps of different requests interleave freely.                      *)

Reqs == 1..NumReqs

\* a request: the call, where it stands, the ActiveModel it read, its
\* result, and two notes: `gone` once the row is deleted after this update
\* passed its ownership check, `afterDelete` for a get that read a deleted id
Request(op, id, user, details) ==
    [op |-> op, id |-> id, user |-> user, details |-> details,
     pc |-> "start", active |-> None, result |-> Ok(Unit),
     gone |-> FALSE, afterDelete |-> FALSE]

NoRequest == [Request("", 0, AuthUser(0), None) EXCEPT !.pc = "idle"]

Finish(req, result) == [req EXCEPT !.pc = "done", !.result = result]

\* the product table a create_new_product(create, user) call leaves behind
\* in an empty store
TableAfterCreate(create, user) ==
    CreateNewProduct(<<>>, 1, create, user).products

ConcInit ==
    /\ users = RegisteredUsers
    /\ \E create \in DetailsInputs, user \in AuthUsers :
          products = TableAfterCreate(create, user)
    /\ nextId = 2
    /\ last = <<>> /\ before = <<>> /\ creator = <<>>
    /\ reqs = [r \in Reqs |-> NoRequest]
    /\ deleted = {}
    /\ StartupIdle /\ RespIdle

\* what a step of a request leaves alone
concFrame == UNCHANGED <<users, last, before, creator, startupVars, respVars>>

\* a request arrives and its guards succeed.  It names an id the store has
\* handed out: a request for an id not yet handed out is the NotFound case
\* of Spec.
Arrive(r) ==
    /\ reqs[r].pc = "idle"
    /\ \E op \in {"create", "get", "update", "delete"},
          id \in 1..(nextId - 1),
          user \in AuthUsers, details \in DetailsInputs :
          reqs' = [reqs EXCEPT ![r] =
                     CASE op = "create" -> Request(op, 0, user, Some(details))
                       [] op = "get"    -> Request(op, id, AuthUser(0), None)
                       [] op = "update" -> Request(op, id, user, Some(details))
                       [] op = "delete" -> Request(op, id, user, None)]
    /\ UNCHANGED <<products, nextId, deleted>>
    /\ concFrame

\* create_new_product: the insert
CreateInsert(r) ==
    /\ reqs[r].op = "create" /\ reqs[r].pc = "start"
    /\ nextId <= MaxProducts
    /\ LET c == CreateNewProduct(products, nextId, reqs[r].details[1],
                                 reqs[r].user)
       IN  /\ products' = c.products
           /\ reqs' = [reqs EXCEPT ![r] = Finish(@, c.res)]
    /\ nextId' = nextId + 1
    /\ UNCHANGED deleted
    /\ concFrame

\* get_product_by_id: the joined query
GetQuery(r) ==
    /\ reqs[r].op = "get" /\ reqs[r].pc = "start"
    /\ reqs' = [reqs EXCEPT ![r] =
                  [Finish(@, GetProductById(products, users, @.id))
                     EXCEPT !.afterDelete = reqs[r].id \in deleted]]
    /\ UNCHANGED <<products, nextId, deleted>>
    /\ concFrame

\* update_product_by_id, lines 141-144: the joined query and the check
UpdateGetAndCheck(r) ==
    /\ reqs[r].op = "update" /\ reqs[r].pc = "start"
    /\ LET check == UpdateCheck(products, users, reqs[r].id, reqs[r].user)
       IN  reqs' = [reqs EXCEPT ![r] =
                      IF check.tag = "Err" THEN Finish(@, check)
                      ELSE [@ EXCEPT !.pc = "checked"]]
    /\ UNCHANGED <<products, nextId, deleted>>
    /\ concFrame

\* update_product_by_id, lines 146-152: the second query
UpdateFindAgain(r) ==
    /\ reqs[r].op = "update" /\ reqs[r].pc = "checked"
    /\ LET found == UpdateFind(products, reqs[r].id)
       IN  reqs' = [reqs EXCEPT ![r] =
                      IF found.tag = "Err" THEN Finish(@, found)
                      ELSE [@ EXCEPT !.pc = "found", !.active = found.val]]
    /\ UNCHANGED <<products, nextId, deleted>>
    /\ concFrame

\* update_product_by_id, lines 154-172: the UPDATE
UpdateWrite(r) ==
    /\ reqs[r].op = "update" /\ reqs[r].pc = "found"
    /\ LET u == Update(products, NewProd(reqs[r].active[1], reqs[r].details[1]))
       IN  /\ products' = u.products
           /\ reqs' = [reqs EXCEPT ![r] = Finish(@, u.res)]
    /\ UNCHANGED <<nextId, deleted>>
    /\ concFrame

\* delete_product_by_id, lines 180-189: the query and the check
DeleteFindAndCheck(r) ==
    /\ reqs[r].op = "delete" /\ reqs[r].pc = "start"
    /\ LET found == DeleteFind(products, reqs[r].id)
       IN  reqs' = [reqs EXCEPT ![r] =
                      IF found.tag = "Err" THEN Finish(@, found)
                      ELSE IF DeleteNotOwner(found.val[1], reqs[r].user)
                           THEN Finish(@, Err(NotAllowed))
                           ELSE [@ EXCEPT !.pc = "found",
                                          !.active = found.val]]
    /\ UNCHANGED <<products, nextId, deleted>>
    /\ concFrame

\* delete_product_by_id, lines 191-196: the DELETE
DeleteWrite(r) ==
    /\ reqs[r].op = "delete" /\ reqs[r].pc = "found"
    /\ LET d == Delete(products, reqs[r].active[1])
       IN  /\ products' = d.products
           /\ reqs' = [q \in Reqs |->
                         IF q = r THEN Finish(reqs[r], d.res)
                         ELSE IF /\ reqs[q].op = "update"
                                 /\ reqs[q].id = reqs[r].id
                                 /\ reqs[q].pc \in {"checked", "found"}
                              THEN [reqs[q] EXCEPT !.gone = TRUE]
                              ELSE reqs[q]]
    /\ deleted' = deleted \cup {reqs[r].id}
    /\ UNCHANGED nextId
    /\ concFrame

ConcNext ==
    \E r \in Reqs :
        \/ Arrive(r)
        \/ CreateInsert(r)
        \/ GetQuery(r)
        \/ UpdateGetAndCheck(r)
        \/ UpdateFindAgain(r)
        \/ UpdateWrite(r)
        \/ DeleteFindAndCheck(r)
        \/ DeleteWrite(r)

ConcSpec == ConcInit /\ [][ConcNext]_vars

----------------------------------------------------------------------------
(* StartupSpec: rocket() of src/src/main.rs, run again and again against   *)
(* the same user table.  Every awaited call is one step and every unwrap   *)
(* is a place where the run aborts; what an aborted run wrote stays.       *)
(* UserService is not among the sources: username_exists, create_user and  *)
(* update_role_for_user are modelled from the specification's description  *)
(* of it.                                                                  *)

ADMIN_USERNAME == "admin"

EnvNames == {"ADMIN_EMAIL", "ADMIN_PASSWORD"}

\* UserService::username_exists
UsernameExists(usrs, username) ==
    \E id \in DOMAIN usrs : usrs[id].username = username

\* UserService::create_user: a new row with the next id and the role every
\* registered user starts with
CreateUser(usrs, user_register) ==
    LET id == Cardinality(DOMAIN usrs) + 1
    IN  [id    |-> id,
         users |-> [i \in DOMAIN usrs \cup {id} |->
                      IF i = id
                      THEN [id |-> id, username |-> user_register.username,
                            email |-> user_register.email, role |-> "User"]
                      ELSE usrs[i]]]

\* UserService::update_role_for_user
UpdateRoleForUser(usrs, id, role) == [usrs EXCEPT ![id].role = role]

\* the seeding done whether or not the admin was found: the fault C2 must
\* detect
SeedAlways(found) == TRUE

\* line 25: if !found_admin
SeedAdmin(found) == ~found

\* a read of the environment that falls back to an empty value: the fault
\* C9 must detect
EnvVarOrEmpty(e, name) == Some("")

\* lines 27-28: env::var(name), Some(its value) when the variable is set
EnvVar(e, name) == IF name \in e THEN Some(<<"value of", name>>) ELSE None

\* lines 29-33
UserRegister(email, password, username) ==
    [email |-> email, password |-> password, username |-> username]

StartupInit ==
    /\ users = <<>>
    /\ pc = "down" /\ env = {} /\ found_admin = FALSE /\ user_id = 0
    /\ log = <<>> /\ bootUsers = <<>> /\ runs = 0
    /\ ProductIdle /\ ConcIdle /\ RespIdle

\* what a step of rocket() leaves alone
startupFrame == UNCHANGED <<productVars, concVars, respVars>>

Step(name, to) == pc' = to /\ log' = Append(log, <<"did", name>>)
Abort(name)    == pc' = "aborted" /\ log' = Append(log, <<"panic", name>>)

\* the process is started, with some of the variables in its environment
Launch ==
    /\ pc \in {"down", "aborted", "mounted"}
    /\ runs < MaxRuns
    /\ runs' = runs + 1
    /\ pc' = "establish_connection"
    /\ env' \in SUBSET EnvNames
    /\ found_admin' = FALSE /\ user_id' = 0
    /\ log' = <<>>
    /\ bootUsers' = users
    /\ UNCHANGED users
    /\ startupFrame

\* line 16: db::establish_connection().await.unwrap()
EstablishConnection ==
    /\ pc = "establish_connection"
    /\ \/ Step("establish_connection", "migrate")
       \/ Abort("establish_connection")
    /\ UNCHANGED <<users, env, found_admin, user_id, bootUsers, runs>>
    /\ startupFrame

\* line 17: Migrator::up(&conn, None).await.unwrap()
MigratorUp ==
    /\ pc = "migrate"
    /\ \/ Step("migrate", "username_exists")
       \/ Abort("migrate")
    /\ UNCHANGED <<users, env, found_admin, user_id, bootUsers, runs>>
    /\ startupFrame

\* lines 20-25: found_admin = username_exists(ADMIN_USERNAME).await.unwrap()
CheckAdmin ==
    /\ pc = "username_exists"
    /\ \/ LET found == UsernameExists(users, ADMIN_USERNAME)
          IN  /\ found_admin' = found
              /\ Step("username_exists",
                      IF SeedAdmin(found) THEN "admin_email" ELSE "mount")
       \/ Abort("username_exists") /\ UNCHANGED found_admin
    /\ UNCHANGED <<users, env, user_id, bootUsers, runs>>
    /\ startupFrame

\* line 27: env::var("ADMIN_EMAIL").unwrap()
ReadAdminEmail ==
    /\ pc = "admin_email"
    /\ IF EnvVar(env, "ADMIN_EMAIL") # None
       THEN Step("admin_email", "admin_password")
       ELSE Abort("admin_email")
    /\ UNCHANGED <<users, env, found_admin, user_id, bootUsers, runs>>
    /\ startupFrame

\* line 28: env::var("ADMIN_PASSWORD").unwrap()
ReadAdminPassword ==
    /\ pc = "admin_password"
    /\ IF EnvVar(env, "ADMIN_PASSWORD") # None
       THEN Step("admin_password", "create_user")
       ELSE Abort("admin_password")
    /\ UNCHANGED <<users, env, found_admin, user_id, bootUsers, runs>>
    /\ startupFrame

\* lines 29-34: user_id = create_user(user_register).await.unwrap()
SeedCreateUser ==
    /\ pc = "create_user"
    /\ \/ LET created == CreateUser(users,
                            UserRegister(EnvVar(env, "ADMIN_EMAIL")[1],
                                         EnvVar(env, "ADMIN_PASSWORD")[1],
                                         ADMIN_USERNAME))
          IN  /\ users' = created.users
              /\ user_id' = created.id
              /\ Step("create_user", "update_role")
       \/ Abort("create_user") /\ UNCHANGED <<users, user_id>>
    /\ UNCHANGED <<env, found_admin, bootUsers, runs>>
    /\ startupFrame

\* lines 35-38: update_role_for_user(user_id, Role::Admin).await.unwrap()
SeedUpdateRole ==
    /\ pc = "update_role"
    /\ \/ /\ users' = UpdateRoleForUser(users, user_id, "Admin")
          /\ Step("update_role", "mount")
       \/ Abort("update_role") /\ UNCHANGED users
    /\ UNCHANGED <<env, found_admin, user_id, bootUsers, runs>>
    /\ startupFrame

\* line 41: controllers::mount_routes(rocket::build())
MountRoutes ==
    /\ pc = "mount"
    /\ Step("mount", "mounted")
    /\ UNCHANGED <<users, env, found_admin, user_id, bootUsers, runs>>
    /\ startupFrame

StartupNext ==
    \/ Launch
    \/ EstablishConnection
    \/ MigratorUp
    \/ CheckAdmin
    \/ ReadAdminEmail
    \/ ReadAdminPassword
    \/ SeedCreateUser
    \/ SeedUpdateRole
    \/ MountRoutes

StartupSpec == StartupInit /\ [][StartupNext]_vars

----------------------------------------------------------------------------
(* Properties of the startup routine, checked under StartupSpec.           *)

Admins == { id \in DOMAIN users : users[id].username = ADMIN_USERNAME }

IsPrefix(s, t) == Len(s) <= Len(t) /\ s = SubSeq(t, 1, Len(s))

\* the steps of the run so far, without the panic that ended it
Panicked == log # <<>> /\ log[Len(log)][1] = "panic"
Steps == [i \in 1..(IF Panicked THEN Len(log) - 1 ELSE Len(log)) |-> log[i][2]]

Took(name) == \E i \in 1..Len(Steps) : Steps[i] = name

\* C2: the user table never holds two accounts with the admin username
C2_AtMostOneAdmin == Cardinality(Admins) <= 1

\* C2 happens: a run that found the admin seeded by an earlier run has
\* mounted the routes
C2_Witness ==
    /\ runs >= 2 /\ pc = "mounted" /\ found_admin
    /\ Cardinality(Admins) = 1

\* C3: when a run has mounted the routes there is exactly one account with
\* the admin username and it has the Admin role
C3_MountedMeansAdminSeeded ==
    pc = "mounted"
    => /\ Cardinality(Admins) = 1
       /\ \A id \in Admins : users[id].role = "Admin"

\* C9: a run takes its steps in the order migrations, admin check,
\* ADMIN_EMAIL, ADMIN_PASSWORD, create user, assign role, mount, skipping
\* from the check to mount when the admin exists, and stops at the step
\* that fails; with no admin and a variable missing no user is created and
\* the routes are not mounted; with an admin found the environment is not
\* read and the user table is not written
C9_StartupOrder ==
    LET seed == <<"establish_connection", "migrate", "username_exists",
                  "admin_email", "admin_password", "create_user",
                  "update_role", "mount">>
        skip == <<"establish_connection", "migrate", "username_exists",
                  "mount">>
    IN  /\ IsPrefix(Steps, seed) \/ IsPrefix(Steps, skip)
        /\ pc = "aborted" <=> Panicked
        /\ (Took("username_exists") /\ ~found_admin /\ env # EnvNames)
           => /\ users = bootUsers
              /\ ~Took("create_user") /\ ~Took("mount") /\ pc # "mounted"
        /\ (Took("username_exists") /\ found_admin)
           => /\ users = bootUsers
              /\ IsPrefix(Steps, skip)

\* C9 happens: a run that found no admin and no ADMIN_PASSWORD has aborted
\* at that read, after it read ADMIN_EMAIL
C9_Witness ==
    /\ pc = "aborted"
    /\ ~found_admin /\ env = {"ADMIN_EMAIL"}
    /\ Took("admin_email")
    /\ log[Len(log)] = <<"panic", "admin_password">>


----------------------------------------------------------------------------
(* RespSpec: impl Responder for ProductServiceError, applied to every      *)
(* error and request of a bounded set.                                     *)

StatusOk                  == 200
StatusForbidden           == 403
StatusNotFound            == 404
StatusInternalServerError == 500

\* the values of ProductServiceError
ProductServiceErrors ==
    { DbError(detail) : detail \in {"connection refused", "no DATABASE_URL"} }
    \cup { OrmError(detail) : detail \in {"Conn", "Exec", "Query",
                                          "RecordNotFound", "RecordNotUpdated"} }
    \cup { NotFound(id) : id \in 0..MaxErrId }
    \cup { NotAllowed, Unknown }

\* the requests an error is a response to
Requests ==
    [method : {"GET", "POST", "PUT", "DELETE"},
     accept : {"application/json", "text/html", "*/*"}]

\* #[error(..)]: the Display of the error, in pieces
Display(self) ==
    CASE self.kind = "NotFound"   ->
             <<"Product with id ", self.id, " not found">>
      [] self.kind = "NotAllowed" ->
             <<"You are not authorized to perform changes on this product">>
      [] self.kind = "Unknown"    -> <<"An unknown error occurred">>
      [] OTHER                    -> <<self.detail>>

\* Response::build(): an empty response
ResponseBuild == [status |-> StatusOk, content_type |-> None, body |-> None]

\* json!(value).respond_to(request): the value as a JSON body
JsonRespondTo(value, request) ==
    [status |-> StatusOk, content_type |-> Some("application/json"),
     body |-> Some(value)]

\* respond_to without .status(Status::Forbidden): the fault C7 must detect
RespondToForbiddenAsBuilt(self, request) ==
    CASE self.kind \in {"DbError", "OrmError", "Unknown"} ->
             [ResponseBuild EXCEPT !.status = StatusInternalServerError]
      [] self.kind = "NotFound" ->
             [JsonRespondTo([error |-> Display(self)], request)
                EXCEPT !.status = StatusNotFound]
      [] self.kind = "NotAllowed" ->
             JsonRespondTo([error |-> Display(self)], request)

\* lines 38-54: respond_to
RespondTo(self, request) ==
    CASE self.kind \in {"DbError", "OrmError", "Unknown"} ->
             [ResponseBuild EXCEPT !.status = StatusInternalServerError]
      [] self.kind = "NotFound" ->
             [JsonRespondTo([error |-> Display(self)], request)
                EXCEPT !.status = StatusNotFound]
      [] self.kind = "NotAllowed" ->
             [JsonRespondTo([error |-> Display(self)], request)
                EXCEPT !.status = StatusForbidden]

RespInit ==
    /\ respErr \in ProductServiceErrors
    /\ respReq \in Requests
    /\ response = None
    /\ users = <<>>
    /\ ProductIdle /\ ConcIdle /\ StartupIdle

Respond ==
    /\ response = None
    /\ response' = Some(RespondTo(respErr, respReq))
    /\ UNCHANGED <<respErr, respReq, users, productVars, concVars,
                   startupVars>>

RespNext == Respond

RespSpec == RespInit /\ [][RespNext]_vars

\* C7: the response to an error has the status its variant fixes, whatever
\* the request: 500 and no body for DbError, OrmError and Unknown, 404 and
\* 403 with the JSON body {error: message} for NotFound and NotAllowed; no
\* status is a 2xx
C7_ErrorStatusIsFixed ==
    response # None =>
        LET r == response[1]
        IN  /\ r.status \notin 200..299
            /\ respErr.kind \in {"DbError", "OrmError", "Unknown"}
               => r.status = 500 /\ r.body = None
            /\ respErr.kind = "NotFound"
               => /\ r.status = 404
                  /\ r.body = Some([error |-> <<"Product with id ", respErr.id,
                                                " not found">>])
            /\ respErr.kind = "NotAllowed"
               => /\ r.status = 403
                  /\ r.body # None
                  /\ DOMAIN r.body[1] = {"error"}

\* C7 happens: NotAllowed has been answered
C7_Witness ==
    /\ response # None
    /\ respErr = NotAllowed
    /\ response[1].status = 403

=============================================================================
